---- MODULE Spec2Model ----
(***************************************************************************)
(* Model of the three FastAPI applications of the repository:              *)
(*   resume.py   POST /extract-experience-skills/  (collection documents)  *)
(*   resume2.py  POST /extract-experience-skills/  (students, jobseekers)  *)
(*   jd.py       POST /upload/                     (job_descriptions)      *)
(* Strings the code inspects (file names, user_type, the generated answer) *)
(* are sequences of one-character strings, so that split, strip, lower and *)
(* the substring test are computed as Python computes them.                *)
(***************************************************************************)
EXTENDS Naturals, Sequences, FiniteSets

VARIABLES variant, req, s3, coll, submitted, parser

vars == <<variant, req, s3, coll, submitted, parser>>

(***************************************************************************)
(* Bounds of the model.                                                    *)
(***************************************************************************)
\* requests that may be in flight at once (specification Spec)
MaxConc == 2
\* requests received in one run
MaxRequests == 4
\* pieces concatenated into a generated answer (specification SpecParse)
MaxPieces == 4

(***************************************************************************)
(* Python str operations.                                                  *)
(***************************************************************************)
Whitespace == {" ", "\n", "\t", "\r"}

UpperAZ == <<"A","B","C","D","E","F","G","H","I","J","K","L","M",
             "N","O","P","Q","R","S","T","U","V","W","X","Y","Z">>
LowerAZ == <<"a","b","c","d","e","f","g","h","i","j","k","l","m",
             "n","o","p","q","r","s","t","u","v","w","x","y","z">>

\* str.lower() on one character
LowerChar(c) ==
    IF \E i \in 1..26 : UpperAZ[i] = c
    THEN LowerAZ[CHOOSE i \in 1..26 : UpperAZ[i] = c]
    ELSE c

\* str.lower()
Lower(s) == [i \in 1..Len(s) |-> LowerChar(s[i])]

\* whether sep occurs in s at position i
OccursAt(s, sep, i) ==
    /\ i >= 1
    /\ i + Len(sep) - 1 <= Len(s)
    /\ SubSeq(s, i, i + Len(sep) - 1) = sep

\* str.find(sep) + 1: position of the first occurrence of sep in s, 0 if none
Find(s, sep) ==
    IF \E i \in 1..Len(s) : OccursAt(s, sep, i)
    THEN CHOOSE i \in 1..Len(s) :
            /\ OccursAt(s, sep, i)
            /\ \A j \in 1..(i - 1) : ~OccursAt(s, sep, j)
    ELSE 0

\* the Python test `sep in s`
Contains(s, sep) == Find(s, sep) # 0

\* str.split(sep): the parts of s between the occurrences of sep, scanning
\* from the left (a sequence of at least one part)
RECURSIVE Split(_, _)
Split(s, sep) ==
    LET i == Find(s, sep)
    IN  IF i = 0
        THEN <<s>>
        ELSE <<SubSeq(s, 1, i - 1)>> \o Split(SubSeq(s, i + Len(sep), Len(s)), sep)

RECURSIVE LStrip(_)
LStrip(s) == IF s # <<>> /\ Head(s) \in Whitespace THEN LStrip(Tail(s)) ELSE s

RECURSIVE RStrip(_)
RStrip(s) ==
    IF s # <<>> /\ s[Len(s)] \in Whitespace
    THEN RStrip(SubSeq(s, 1, Len(s) - 1))
    ELSE s

\* str.strip()
Strip(s) == RStrip(LStrip(s))

(***************************************************************************)
(* String constants of the source.                                         *)
(***************************************************************************)
ExperienceMarker ==
    <<"Y","e","a","r","s"," ","o","f"," ",
      "E","x","p","e","r","i","e","n","c","e",":">>
SkillsMarker == <<"S","k","i","l","l","s",":">>
Newline == <<"\n">>
Dot == <<".">>
NA == <<"N","/","A">>
\* Python's None, a value no string equals
None == <<"None">>

\* the truth value Python gives a str-or-None
Truthy(x) == x # None /\ x # <<>>

(***************************************************************************)
(* Parsing of the generated answer (resume.py 133-138, 150-151).           *)
(***************************************************************************)
ExperienceMatch(answer) ==
    IF Contains(answer, ExperienceMarker)
    THEN Strip(Split(Split(answer, ExperienceMarker)[2], Newline)[1])
    ELSE None

\* variant: the value is not trimmed
SkillsMatchUntrimmed(answer) ==
    IF Contains(answer, SkillsMarker)
    THEN Split(answer, SkillsMarker)[2]
    ELSE None

SkillsMatch(answer) ==
    IF Contains(answer, SkillsMarker)
    THEN Strip(Split(answer, SkillsMarker)[2])
    ELSE None

YearsOfExperience(answer) ==
    IF Truthy(ExperienceMatch(answer)) THEN ExperienceMatch(answer) ELSE NA

TechnicalSkills(answer) ==
    IF Truthy(SkillsMatch(answer)) THEN SkillsMatch(answer) ELSE NA

(***************************************************************************)
(* Inputs of the requests.                                                 *)
(***************************************************************************)
Variants == {"resume", "resume2", "jd"}

\* "cv.TXT", "cv.exe"
FileNames ==
    { <<"c","v",".","T","X","T">>,
      <<"c","v",".","e","x","e">> }

\* Uploaded bytes: whether they are well formed for the declared type (valid
\* UTF-8 for txt, a readable document for pdf and docx) and the segments
\* (lines, pages, paragraphs) they hold.
Contents ==
    { [wellformed |-> TRUE,  segments |-> <<"Jane", "Go">>],
      [wellformed |-> FALSE, segments |-> <<>>] }

NoContent == [wellformed |-> FALSE, segments |-> <<"-">>]

\* " Student ", "jobseeker", "manager"
UserTypes ==
    { <<" ","S","t","u","d","e","n","t"," ">>,
      <<"j","o","b","s","e","e","k","e","r">>,
      <<"m","a","n","a","g","e","r">> }

\* only resume2.py takes the form field user_type
UserTypesOf(v) == IF v = "resume2" THEN UserTypes ELSE {<<>>}

ExampleAnswer ==
    <<"Y","e","a","r","s"," ","o","f"," ",
      "E","x","p","e","r","i","e","n","c","e",":"," ","5","\n",
      "S","k","i","l","l","s",":"," ","P","y","t","h","o","n",","," ","G","o">>

\* texts gemini may return to a handler: the requested format, and one
\* without the experience line
Answers == { ExampleAnswer, <<"S","k","i","l","l","s",":"," ","G","o">> }

(***************************************************************************)
(* Collections and object storage.                                         *)
(***************************************************************************)
Collections == {"documents", "students", "jobseekers", "job_descriptions"}

\* resume.py 103, resume2.py 127
S3Prefix(v) ==
    IF v = "resume"
    THEN <<"r","e","s","u","m","e","s","/">>
    ELSE <<"r","e","s","u","m","e","/">>

S3FilePath(v, filename) == S3Prefix(v) \o filename

\* file.filename.split('.')[-1].lower()
FileExtension(filename) ==
    LET parts == Split(filename, Dot) IN Lower(parts[Len(parts)])

\* collection.find_one({"file_name": name}): the position of the first
\* match in the collection, 0 for None
FindOne(c, name) ==
    IF \E i \in 1..Len(c) : c[i].file_name = name
    THEN CHOOSE i \in 1..Len(c) :
            /\ c[i].file_name = name
            /\ \A j \in 1..(i - 1) : c[j].file_name # name
    ELSE 0

\* collection.insert_one(doc)
InsertOne(c, doc) == Append(c, doc)

\* collection.update_one({"file_name": name}, {"$set": doc}): the first match
\* gets the fields of doc; nothing is added when none matches
UpdateOne(c, name, doc) ==
    IF FindOne(c, name) = 0 THEN c ELSE [c EXCEPT ![FindOne(c, name)] = doc]

\* s3_client.put_object(Key=key, Body=body)
PutObject(store, key, body) ==
    [k \in (DOMAIN store) \cup {key} |-> IF k = key THEN body ELSE store[k]]

(***************************************************************************)
(* Exceptions.                                                             *)
(***************************************************************************)
NoException == [type |-> "none", status_code |-> 0]
HTTPException(code) == [type |-> "HTTPException", status_code |-> code]
OtherException(name) == [type |-> name, status_code |-> 0]

\* `except Exception as e: raise HTTPException(status_code=500, ...)`: the
\* last clause of each handler; HTTPException is an Exception, so the 400s
\* raised inside the try block are caught here too
HandlerExcept(e) == HTTPException(500)

\* the inner clause of jd.py 53-56
JdDecodeExcept(e) == HTTPException(400)

\* "\n".join(texts)
RECURSIVE JoinLines(_)
JoinLines(texts) ==
    IF Len(texts) <= 1
    THEN texts
    ELSE <<Head(texts), "\n">> \o JoinLines(Tail(texts))

\* The text-extraction block (resume.py 115-125): the segments, or the
\* exception raised.
ExtractTexts(extension, content) ==
    IF extension \in { <<"p","d","f">>, <<"d","o","c","x">> }
    THEN IF content.wellformed
         THEN [raised |-> NoException, texts |-> content.segments]
         ELSE [raised |-> OtherException("ParseError"), texts |-> <<>>]
    ELSE IF extension = <<"t","x","t">>
    THEN IF content.wellformed
         THEN [raised |-> NoException, texts |-> content.segments]
         ELSE [raised |-> OtherException("UnicodeDecodeError"), texts |-> <<>>]
    ELSE [raised |-> HTTPException(400), texts |-> <<>>]

\* The same block of jd.py (48-58), whose helpers wrap a parse error in a 500
\* and whose txt branch wraps a decode error in a 400.
JdExtractText(extension, content) ==
    IF extension \in { <<"p","d","f">>, <<"d","o","c","x">> }
    THEN IF content.wellformed
         THEN [raised |-> NoException, texts |-> content.segments]
         ELSE [raised |-> HTTPException(500), texts |-> <<>>]
    ELSE IF extension = <<"t","x","t">>
    THEN IF content.wellformed
         THEN [raised |-> NoException, texts |-> content.segments]
         ELSE [raised |-> JdDecodeExcept(OtherException("UnicodeDecodeError")),
               texts |-> <<>>]
    ELSE [raised |-> HTTPException(400), texts |-> <<>>]

\* document_data / resume_data (resume.py 146-154, resume2.py 169-177);
\* embeddings and uploaded_at are left out, no handler reads them back
DocumentData(v, filename, texts, answer) ==
    [ file_name |-> filename,
      s3_url |-> S3FilePath(v, filename),
      all_content |-> JoinLines(texts),
      technical_skills |-> TechnicalSkills(answer),
      years_of_experience |-> YearsOfExperience(answer) ]

\* jd.py 60-64
JdDocumentData(filename, texts) ==
    [ file_name |-> filename, content |-> JoinLines(texts) ]

\* user_type.lower().strip() (resume2.py 180)
NormalizeUserType(user_type) == Strip(Lower(user_type))

\* resume2.py 181-188: the collection of a user type, None when invalid
TargetCollection(user_type) ==
    IF NormalizeUserType(user_type) = <<"s","t","u","d","e","n","t">>
    THEN "students"
    ELSE IF NormalizeUserType(user_type) = <<"j","o","b","s","e","e","k","e","r">>
    THEN "jobseekers"
    ELSE "none"

(***************************************************************************)
(* State.                                                                  *)
(*   variant     which application is deployed                             *)
(*   req         the requests being served: position in the handler, its   *)
(*               locals, the response status, and the calls issued so far  *)
(*               to S3, MongoDB, gemini and cohere (trace); a slot is      *)
(*               taken again once its request has been answered            *)
(*   s3          the bucket: key -> body                                   *)
(*   coll        the MongoDB collections: name -> documents, in insertion  *)
(*               order                                                     *)
(*   submitted   the file names of the requests received so far            *)
(*   parser      an answer under construction and its parsed fields        *)
(***************************************************************************)
IdleRequest ==
    [ pc |-> "idle", filename |-> <<>>, file_content |-> NoContent,
      user_type |-> <<>>, existing_doc |-> FALSE, texts |-> <<>>,
      answer |-> <<>>, status |-> 0, trace |-> <<>> ]

IdleParser ==
    [ stage |-> "build", pieces |-> 0, answer |-> <<>>,
      years_of_experience |-> <<>>, technical_skills |-> <<>> ]

InitWith(n) ==
    /\ variant \in Variants
    /\ req = [r \in 1..n |-> IdleRequest]
    /\ s3 = <<>>
    /\ coll = [c \in Collections |-> <<>>]
    /\ submitted = <<>>
    /\ parser = IdleParser

Init == InitWith(MaxConc)

\* one request at a time: each completes before the next starts
InitSeq == InitWith(1)

Requests == DOMAIN req

Call(name) == [call |-> name, ok |-> TRUE]
FailedCall(name) == [call |-> name, ok |-> FALSE]

\* the handler returns or raises: its locals are gone, the request, the
\* response status and the calls it issued remain
Respond(r, code, calls) ==
    req' = [req EXCEPT ![r] =
               [IdleRequest EXCEPT !.pc = "done",
                                   !.filename = req[r].filename,
                                   !.user_type = req[r].user_type,
                                   !.status = code,
                                   !.trace = req[r].trace \o calls]]

\* an exception reaches the handler's except clause
Raise(r, e, calls) == Respond(r, HandlerExcept(e).status_code, calls)

(***************************************************************************)
(* POST /extract-experience-skills/ (resume.py 97-166, resume2.py 123-194) *)
(***************************************************************************)
\* 98-103: the upload is read; the requests in flight at once take the
\* slots in order
Accept(r) ==
    \E fn \in FileNames, body \in Contents, ut \in UserTypesOf(variant) :
          /\ req' = [req EXCEPT ![r] =
                       [IdleRequest EXCEPT
                          !.pc = IF variant = "jd" THEN "jd_extract"
                                 ELSE "find_one",
                          !.filename = fn,
                          !.file_content = body,
                          !.user_type = ut]]
          /\ submitted' = Append(submitted, fn)
    /\ UNCHANGED <<variant, s3, coll, parser>>

Receive(r) ==
    /\ req[r].pc = "idle"
    /\ \A q \in Requests : q < r => req[q].pc # "idle"
    /\ Accept(r)

\* the next request arrives after the response to the one before
ReceiveNext(r) ==
    /\ req[r].pc = "done"
    /\ Len(submitted) < MaxRequests
    /\ Accept(r)

\* resume.py 105: collection.find_one; resume2.py 130: students_collection
\* .find_one, whose falsy result sends `or` on to the second lookup. A
\* MongoDB call may fail, which the handler's except clause answers.
FindExisting(r) ==
    /\ req[r].pc = "find_one"
    /\ LET c == IF variant = "resume" THEN "documents" ELSE "students"
           found == FindOne(coll[c], req[r].filename) # 0
       IN  \/ req' = [req EXCEPT
                        ![r].pc = IF variant = "resume2" /\ ~found
                                  THEN "find_one_jobseekers" ELSE "storage",
                        ![r].existing_doc = found,
                        ![r].trace = Append(req[r].trace, Call("find_one"))]
           \/ Raise(r, OtherException("PyMongoError"),
                    <<FailedCall("find_one")>>)
    /\ UNCHANGED <<variant, s3, coll, submitted, parser>>

\* resume2.py 131: jobseekers_collection.find_one
FindExistingJobseeker(r) ==
    /\ req[r].pc = "find_one_jobseekers"
    /\ \/ req' = [req EXCEPT
                    ![r].pc = "storage",
                    ![r].existing_doc =
                        FindOne(coll["jobseekers"], req[r].filename) # 0,
                    ![r].trace = Append(req[r].trace, Call("find_one"))]
       \/ Raise(r, OtherException("PyMongoError"), <<FailedCall("find_one")>>)
    /\ UNCHANGED <<variant, s3, coll, submitted, parser>>

\* 106-108 with get_resume_from_s3 (46-54): get_object fails when the key is
\* absent and may fail for any other reason
FetchFromS3(r) ==
    /\ req[r].pc = "storage"
    /\ req[r].existing_doc
    /\ LET key == S3FilePath(variant, req[r].filename)
       IN  \/ /\ key \in DOMAIN s3
              /\ req' = [req EXCEPT
                           ![r].pc = "extract",
                           ![r].file_content = s3[key],
                           ![r].trace = Append(req[r].trace, Call("get_object"))]
           \/ Raise(r, HTTPException(500), <<FailedCall("get_object")>>)
    /\ UNCHANGED <<variant, s3, coll, submitted, parser>>

\* variant: the upload does not depend on the existence check
UploadToS3Always(r) ==
    /\ req[r].pc = "storage"
    /\ \/ /\ s3' = PutObject(s3, S3FilePath(variant, req[r].filename),
                             req[r].file_content)
          /\ req' = [req EXCEPT
                       ![r].pc = "extract",
                       ![r].trace = Append(req[r].trace, Call("put_object"))]
       \/ /\ Raise(r, HTTPException(500), <<FailedCall("put_object")>>)
          /\ s3' = s3
    /\ UNCHANGED <<variant, coll, submitted, parser>>

\* variant: a failed upload is swallowed and the handler goes on
UploadToS3FailureIgnored(r) ==
    /\ req[r].pc = "storage"
    /\ ~req[r].existing_doc
    /\ \/ /\ s3' = PutObject(s3, S3FilePath(variant, req[r].filename),
                             req[r].file_content)
          /\ req' = [req EXCEPT
                       ![r].pc = "extract",
                       ![r].trace = Append(req[r].trace, Call("put_object"))]
       \/ /\ req' = [req EXCEPT
                       ![r].pc = "extract",
                       ![r].trace =
                           Append(req[r].trace, FailedCall("put_object"))]
          /\ s3' = s3
    /\ UNCHANGED <<variant, coll, submitted, parser>>

\* 110-112 with upload_to_s3 (37-45)
UploadToS3(r) ==
    /\ req[r].pc = "storage"
    /\ ~req[r].existing_doc
    /\ \/ /\ s3' = PutObject(s3, S3FilePath(variant, req[r].filename),
                             req[r].file_content)
          /\ req' = [req EXCEPT
                       ![r].pc = "extract",
                       ![r].trace = Append(req[r].trace, Call("put_object"))]
       \/ /\ Raise(r, HTTPException(500), <<FailedCall("put_object")>>)
          /\ s3' = s3
    /\ UNCHANGED <<variant, coll, submitted, parser>>

\* 115-125
ExtractText(r) ==
    /\ req[r].pc = "extract"
    /\ LET x == ExtractTexts(FileExtension(req[r].filename), req[r].file_content)
       IN  IF x.raised = NoException
           THEN req' = [req EXCEPT
                          ![r].pc = "synthesize",
                          ![r].texts = x.texts,
                          ![r].trace = Append(req[r].trace, Call("extract_text"))]
           ELSE Raise(r, x.raised, <<FailedCall("extract_text")>>)
    /\ UNCHANGED <<variant, s3, coll, submitted, parser>>

\* variant: the embedding step is left out
SynthesizeThenPersist(r) ==
    /\ req[r].pc = "synthesize"
    /\ \/ \E a \in Answers :
             req' = [req EXCEPT
                       ![r].pc = "persist",
                       ![r].answer = a,
                       ![r].trace =
                           Append(req[r].trace, Call("generate_content"))]
       \/ Raise(r, HTTPException(500), <<FailedCall("generate_content")>>)
    /\ UNCHANGED <<variant, s3, coll, submitted, parser>>

\* 129 with synthesize_answer (69-90)
Synthesize(r) ==
    /\ req[r].pc = "synthesize"
    /\ \/ \E a \in Answers :
             req' = [req EXCEPT
                       ![r].pc = "embed",
                       ![r].answer = a,
                       ![r].trace =
                           Append(req[r].trace, Call("generate_content"))]
       \/ Raise(r, HTTPException(500), <<FailedCall("generate_content")>>)
    /\ UNCHANGED <<variant, s3, coll, submitted, parser>>

\* variant: a failed embedding call is swallowed and the handler goes on
FetchEmbeddingsFailureIgnored(r) ==
    /\ req[r].pc = "embed"
    /\ \/ req' = [req EXCEPT
                    ![r].pc = "persist",
                    ![r].trace = Append(req[r].trace, Call("embed"))]
       \/ req' = [req EXCEPT
                    ![r].pc = "persist",
                    ![r].trace = Append(req[r].trace, FailedCall("embed"))]
    /\ UNCHANGED <<variant, s3, coll, submitted, parser>>

\* 143-144 with fetch_embeddings (56-68)
FetchEmbeddings(r) ==
    /\ req[r].pc = "embed"
    /\ \/ req' = [req EXCEPT
                    ![r].pc = "persist",
                    ![r].trace = Append(req[r].trace, Call("embed"))]
       \/ Raise(r, HTTPException(500), <<FailedCall("embed")>>)
    /\ UNCHANGED <<variant, s3, coll, submitted, parser>>

\* variant: the write looks the record up again (an upsert)
PersistDocumentUpsert(r) ==
    /\ req[r].pc = "persist"
    /\ variant = "resume"
    /\ LET doc == DocumentData(variant, req[r].filename, req[r].texts,
                               req[r].answer)
           found == FindOne(coll["documents"], req[r].filename) # 0
           write == IF found THEN "update_one" ELSE "insert_one"
       IN  \/ /\ coll' = [coll EXCEPT !["documents"] =
                            IF found
                            THEN UpdateOne(@, req[r].filename, doc)
                            ELSE InsertOne(@, doc)]
              /\ Respond(r, 200, <<Call(write)>>)
           \/ /\ Raise(r, OtherException("PyMongoError"), <<FailedCall(write)>>)
              /\ coll' = coll
    /\ UNCHANGED <<variant, s3, submitted, parser>>

\* resume.py 146-162
PersistDocument(r) ==
    /\ req[r].pc = "persist"
    /\ variant = "resume"
    /\ LET doc == DocumentData(variant, req[r].filename, req[r].texts,
                               req[r].answer)
           write == IF req[r].existing_doc THEN "update_one" ELSE "insert_one"
       IN  \/ /\ coll' = [coll EXCEPT !["documents"] =
                            IF req[r].existing_doc
                            THEN UpdateOne(@, req[r].filename, doc)
                            ELSE InsertOne(@, doc)]
              /\ Respond(r, 200, <<Call(write)>>)
           \/ /\ Raise(r, OtherException("PyMongoError"), <<FailedCall(write)>>)
              /\ coll' = coll
    /\ UNCHANGED <<variant, s3, submitted, parser>>

\* resume2.py 169-190
PersistResume(r) ==
    /\ req[r].pc = "persist"
    /\ variant = "resume2"
    /\ LET doc == DocumentData(variant, req[r].filename, req[r].texts,
                               req[r].answer)
           target == TargetCollection(req[r].user_type)
       IN  IF target \in Collections
           THEN \/ /\ coll' = [coll EXCEPT ![target] = InsertOne(@, doc)]
                   /\ Respond(r, 200, <<Call("insert_one")>>)
                \/ /\ Raise(r, OtherException("PyMongoError"),
                            <<FailedCall("insert_one")>>)
                   /\ coll' = coll
           ELSE /\ Raise(r, HTTPException(400), <<>>)
                /\ coll' = coll
    /\ UNCHANGED <<variant, s3, submitted, parser>>

(***************************************************************************)
(* POST /upload/ (jd.py 44-69)                                             *)
(***************************************************************************)
\* 48-58
JdExtract(r) ==
    /\ req[r].pc = "jd_extract"
    /\ LET x == JdExtractText(FileExtension(req[r].filename),
                              req[r].file_content)
       IN  IF x.raised = NoException
           THEN req' = [req EXCEPT
                          ![r].pc = "jd_insert",
                          ![r].texts = x.texts,
                          ![r].trace = Append(req[r].trace, Call("extract_text"))]
           ELSE Raise(r, x.raised, <<FailedCall("extract_text")>>)
    /\ UNCHANGED <<variant, s3, coll, submitted, parser>>

\* 60-67; insert_one may fail (68-69)
JdInsert(r) ==
    /\ req[r].pc = "jd_insert"
    /\ \/ /\ coll' = [coll EXCEPT !["job_descriptions"] =
                         InsertOne(@, JdDocumentData(req[r].filename,
                                                     req[r].texts))]
          /\ Respond(r, 200, <<Call("insert_one")>>)
       \/ /\ Raise(r, OtherException("PyMongoError"),
                   <<FailedCall("insert_one")>>)
          /\ coll' = coll
    /\ UNCHANGED <<variant, s3, submitted, parser>>

Next ==
    \/ \E r \in Requests : Receive(r)
    \/ \E r \in Requests : FindExisting(r)
    \/ \E r \in Requests : FindExistingJobseeker(r)
    \/ \E r \in Requests : FetchFromS3(r)
    \/ \E r \in Requests : UploadToS3(r)
    \/ \E r \in Requests : ExtractText(r)
    \/ \E r \in Requests : Synthesize(r)
    \/ \E r \in Requests : FetchEmbeddings(r)
    \/ \E r \in Requests : PersistDocument(r)
    \/ \E r \in Requests : PersistResume(r)
    \/ \E r \in Requests : JdExtract(r)
    \/ \E r \in Requests : JdInsert(r)

NextSeq ==
    \/ Next
    \/ \E r \in Requests : ReceiveNext(r)

\* MaxConc requests whose steps interleave
Spec == Init /\ [][Next]_vars

\* MaxRequests requests processed one at a time
SpecSeq == InitSeq /\ [][NextSeq]_vars

(***************************************************************************)
(* The parsing of an answer, over every answer built from at most          *)
(* MaxPieces pieces, and over the example of the requested format.         *)
(***************************************************************************)
Pieces == { ExperienceMarker, SkillsMarker, Newline, <<" ">>, <<"5">>, <<"G","o">> }

AppendPiece ==
    /\ parser.stage = "build"
    /\ parser.pieces < MaxPieces
    /\ \E p \in Pieces :
          parser' = [parser EXCEPT !.answer = parser.answer \o p,
                                   !.pieces = parser.pieces + 1]
    /\ UNCHANGED <<variant, req, s3, coll, submitted>>

GenerateExample ==
    /\ parser.stage = "build"
    /\ parser.pieces = 0
    /\ parser' = [parser EXCEPT !.answer = ExampleAnswer, !.stage = "built"]
    /\ UNCHANGED <<variant, req, s3, coll, submitted>>

\* resume.py 133-138 and 150-151 on the answer
ParseAnswer ==
    /\ parser.stage \in {"build", "built"}
    /\ parser' = [parser EXCEPT
                    !.stage = "parsed",
                    !.years_of_experience = YearsOfExperience(parser.answer),
                    !.technical_skills = TechnicalSkills(parser.answer)]
    /\ UNCHANGED <<variant, req, s3, coll, submitted>>

NextParse == AppendPiece \/ GenerateExample \/ ParseAnswer

SpecParse == InitSeq /\ [][NextParse]_vars

(***************************************************************************)
(* Vocabulary of the properties.                                           *)
(***************************************************************************)
SupportedExtensions == { <<"p","d","f">>, <<"d","o","c","x">>, <<"t","x","t">> }

RecordCollections == {"documents", "students", "jobseekers"}

StorageCalls == {"get_object", "put_object"}
WriteCalls == {"insert_one", "update_one"}
ExternalCalls == {"get_object", "put_object", "generate_content", "embed"}

\* the request q issued the call, whatever its outcome
Issued(q, name) == \E i \in 1..Len(q.trace) : q.trace[i].call = name

\* the call of q succeeded
Succeeded(q, name) ==
    \E i \in 1..Len(q.trace) : q.trace[i].call = name /\ q.trace[i].ok

\* a call of q among names failed
FailedIn(q, names) ==
    \E i \in 1..Len(q.trace) : q.trace[i].call \in names /\ ~q.trace[i].ok

\* in the trace t, a call among later is issued only after a call among
\* earlier has succeeded
Precedes(t, earlier, later) ==
    \A j \in 1..Len(t) :
        t[j].call \in later =>
            \E i \in 1..(j - 1) : t[i].call \in earlier /\ t[i].ok

\* the records of collection c with file name f
RecordsOf(c, f) == { i \in 1..Len(coll[c]) : coll[c][i].file_name = f }

ClientError(code) == code \in 400..499

(***************************************************************************)
(* C1. Requests processed one at a time leave at most one record per       *)
(* fileName in every target collection: a second submission updates the    *)
(* record and adds none (resume.py and resume2.py).                        *)
(***************************************************************************)
C1_OneRecordPerFileName ==
    \A c \in RecordCollections : \A f \in FileNames :
        Cardinality(RecordsOf(c, f)) <= 1

(***************************************************************************)
(* C2. As claimed: with requests processed one at a time, a request whose  *)
(* fileName was submitted by an earlier request, and whose artifact that   *)
(* request stored, issues no put_object at its storage step and leaves the *)
(* stored artifact as it is.                                               *)
(***************************************************************************)
SubmittedBefore(r) ==
    \E i \in 1..(Len(submitted) - 1) : submitted[i] = req[r].filename

C2_ResubmissionNeverUploads ==
    [][ \A r \in Requests :
          ( /\ req[r].pc = "storage"
            /\ SubmittedBefore(r)
            /\ S3FilePath(variant, req[r].filename) \in DOMAIN s3 )
              => /\ s3' = s3
                 /\ ~Issued(req'[r], "put_object") ]_vars

(***************************************************************************)
(* C2, amended. With requests processed one at a time, a request whose     *)
(* fileName has a record when it reaches the storage step issues           *)
(* get_object, issues no put_object and leaves the bucket as it is.        *)
(***************************************************************************)
HasRecord(f) == \E c \in RecordCollections : RecordsOf(c, f) # {}

C2_RecordedFileNameIsFetched ==
    [][ \A r \in Requests :
          (req[r].pc = "storage" /\ HasRecord(req[r].filename))
              => /\ s3' = s3
                 /\ Len(req'[r].trace) = Len(req[r].trace) + 1
                 /\ req'[r].trace[Len(req'[r].trace)].call = "get_object" ]_vars

C2_Witness ==
    \E r \in Requests :
        /\ req[r].pc = "extract"
        /\ HasRecord(req[r].filename)
        /\ Succeeded(req[r], "get_object")
        /\ Len(submitted) >= 2

(***************************************************************************)
(* C3. A request whose file extension is none of pdf, docx, txt is         *)
(* answered with a 400-class status, and it issues no put_object, no       *)
(* get_object and no database write (all three handlers). Stated of the    *)
(* requests in which no external service fails.                            *)
(***************************************************************************)
C3_UnsupportedExtensionRejected ==
    \A r \in Requests :
        ( /\ req[r].pc = "done"
          /\ FileExtension(req[r].filename) \notin SupportedExtensions
          /\ ~FailedIn(req[r], ExternalCalls) )
            => /\ ClientError(req[r].status)
               /\ \A i \in 1..Len(req[r].trace) :
                     req[r].trace[i].call \notin StorageCalls \cup WriteCalls

(***************************************************************************)
(* C4. resume2.py: a request whose user_type, lower-cased and trimmed, is  *)
(* neither student nor jobseeker is answered with a 400-class status and   *)
(* writes no record. Stated of the requests that reach the check.          *)
(***************************************************************************)
ValidUserTypes ==
    { <<"s","t","u","d","e","n","t">>, <<"j","o","b","s","e","e","k","e","r">> }

C4_InvalidUserTypeRejected ==
    \A r \in Requests :
        ( /\ variant = "resume2"
          /\ req[r].pc = "done"
          /\ Succeeded(req[r], "embed")
          /\ NormalizeUserType(req[r].user_type) \notin ValidUserTypes )
            => /\ ClientError(req[r].status)
               /\ \A i \in 1..Len(req[r].trace) :
                     req[r].trace[i].call \notin WriteCalls

(***************************************************************************)
(* C5. A request with extension txt whose bytes are not valid UTF-8 (the   *)
(* decoding fails) is answered with a 400-class status (all handlers).     *)
(***************************************************************************)
C5_UndecodableTxtRejected ==
    \A r \in Requests :
        ( /\ req[r].pc = "done"
          /\ FileExtension(req[r].filename) = <<"t","x","t">>
          /\ FailedIn(req[r], {"extract_text"}) )
            => ClientError(req[r].status)

(***************************************************************************)
(* C6. As claimed: yearsOfExperience is the trimmed text between the       *)
(* marker 'Years of Experience:' and the next newline, skills the trimmed  *)
(* rest of the answer after 'Skills:', each 'N/A' when its marker is       *)
(* absent.                                                                 *)
(***************************************************************************)
\* the text of s after the first occurrence of marker
After(s, marker) == SubSeq(s, Find(s, marker) + Len(marker), Len(s))

\* the text of s before the first occurrence of stop, all of s if none
UpTo(s, stop) == IF Find(s, stop) = 0 THEN s ELSE SubSeq(s, 1, Find(s, stop) - 1)

OrNA(s) == IF s = <<>> THEN NA ELSE s

C6_FieldsAsClaimed ==
    parser.stage = "parsed" =>
        /\ parser.years_of_experience =
              IF Contains(parser.answer, ExperienceMarker)
              THEN Strip(UpTo(After(parser.answer, ExperienceMarker), Newline))
              ELSE NA
        /\ parser.technical_skills =
              IF Contains(parser.answer, SkillsMarker)
              THEN Strip(After(parser.answer, SkillsMarker))
              ELSE NA

(***************************************************************************)
(* C6, amended. yearsOfExperience is the trimmed text after the first      *)
(* 'Years of Experience:' up to the next newline, the next occurrence of   *)
(* that marker or the end; skills is the trimmed text after the first      *)
(* 'Skills:' up to the next occurrence of 'Skills:' or the end; each is    *)
(* 'N/A' when its marker is absent or the trimmed text is empty. The       *)
(* answer 'Years of Experience: 5\nSkills: Python, Go' gives '5' and       *)
(* 'Python, Go'.                                                           *)
(***************************************************************************)
C6_ParsedFields ==
    parser.stage = "parsed" =>
        /\ parser.years_of_experience =
              IF Contains(parser.answer, ExperienceMarker)
              THEN OrNA(Strip(UpTo(UpTo(After(parser.answer, ExperienceMarker),
                                        ExperienceMarker), Newline)))
              ELSE NA
        /\ parser.technical_skills =
              IF Contains(parser.answer, SkillsMarker)
              THEN OrNA(Strip(UpTo(After(parser.answer, SkillsMarker),
                                   SkillsMarker)))
              ELSE NA
        /\ parser.answer = ExampleAnswer =>
              /\ parser.years_of_experience = <<"5">>
              /\ parser.technical_skills =
                    <<"P","y","t","h","o","n",","," ","G","o">>

C6_Witness ==
    /\ parser.stage = "parsed"
    /\ parser.answer = ExampleAnswer
    /\ parser.years_of_experience = <<"5">>
    /\ parser.technical_skills = <<"P","y","t","h","o","n",","," ","G","o">>

(***************************************************************************)
(* C7. In both /extract-experience-skills/ variants, the step in which the *)
(* S3 call, the generation call or the embedding call fails ends the       *)
(* request with status 500, leaves every collection unchanged, and the     *)
(* request has issued no insert_one and no update_one.                     *)
(***************************************************************************)
C7_FailureSkipsPersistence ==
    [][ \A r \in Requests :
          (req'[r] # req[r] /\ FailedIn(req'[r], ExternalCalls))
              => /\ req'[r].pc = "done"
                 /\ req'[r].status = 500
                 /\ coll' = coll
                 /\ ~Issued(req'[r], "insert_one")
                 /\ ~Issued(req'[r], "update_one") ]_vars

C7_Witness ==
    \E r \in Requests :
        /\ req[r].pc = "done"
        /\ req[r].status = 500
        /\ Succeeded(req[r], "put_object")
        /\ FailedIn(req[r], {"generate_content"})
        /\ \A c \in Collections : coll[c] = <<>>

Inserters(f) ==
    { r \in Requests :
        /\ req[r].pc = "done"
        /\ req[r].filename = f
        /\ req[r].status = 200
        /\ Succeeded(req[r], "put_object") }

C9_InsertIsUnconditional ==
    variant = "resume" =>
        \A f \in FileNames :
            Cardinality(RecordsOf("documents", f)) = Cardinality(Inserters(f))

C9_Witness ==
    /\ variant = "resume"
    /\ \E f \in FileNames :
          /\ Cardinality(RecordsOf("documents", f)) = 2
          /\ \A r \in Inserters(f) :
                /\ Succeeded(req[r], "find_one")
                /\ Succeeded(req[r], "insert_one")
          /\ Cardinality(Inserters(f)) = 2

(***************************************************************************)
(* C10. In both /extract-experience-skills/ variants and in every          *)
(* interleaving, a record with fileName f exists only if an artifact is    *)
(* stored under prefix + f. (An artifact without a record is reachable.)   *)
(***************************************************************************)
C10_RecordHasArtifact ==
    \A c \in RecordCollections : \A i \in 1..Len(coll[c]) :
        S3FilePath(variant, coll[c][i].file_name) \in DOMAIN s3

C10_Witness ==
    /\ \E f \in FileNames :
          HasRecord(f) /\ S3FilePath(variant, f) \in DOMAIN s3
    /\ \E g \in FileNames :
          ~HasRecord(g) /\ S3FilePath(variant, g) \in DOMAIN s3

====
